---- MODULE Spec2Model ----
(***************************************************************************)
(* bcut: select a byte range of an input.                                  *)
(*                                                                         *)
(*   - the range parser of src/main.rs (regex) and the one of src/range.rs *)
(*     (nom combinators): Range::from_str;                                 *)
(*   - the input positioner of src/main.rs: prepare_input and io_copy;     *)
(*   - the suffixed numbers of src/rangeparse.rs: Number::normalize.       *)
(*                                                                         *)
(* Unsigned integers of the program (u64, u128) are natural numbers kept   *)
(* as little-endian sequences of limbs in base 2^15 without leading zero   *)
(* limbs, so that 2^63, 2^64 and the products of normalize are exact; a    *)
(* width is a comparison with the type's maximum.  Strings are sequences   *)
(* of one-character strings.  The offsets and counts of the positioner are *)
(* small and kept as integers.                                             *)
(*                                                                         *)
(* Three specifications share the variables, each leaving the variables of *)
(* the other two idle: SpecParse (a range expression parsed by both        *)
(* parsers), SpecPos (an input positioned and copied) and SpecNum (a       *)
(* Number normalized and expanded to bytes).                               *)
(***************************************************************************)
EXTENDS Integers, Sequences, FiniteSets, TLC

VARIABLES
    input,      \* parser: the range expression, a sequence of characters
    gen,        \* parser: how the expression was written (the numbers meant)
    result,     \* parser: what Range::from_str of main.rs returned, or Pending
    resultNom,  \* parser: what Range::from_str of range.rs returned, or Pending
    num,        \* numbers: a Number (value, suffix)
    norm,       \* numbers: num.normalize(), or Pending
    build,      \* numbers: the build (debug_assertions, overflow_checks)
    bytesOut,   \* numbers: what num.bytes() did, or Pending
    tryOut,     \* numbers: what num.try_bytes() returned, or Pending
    platform,   \* positioner: "unix" or "other" (cfg(unix) / cfg(not(unix)))
    isStdin,    \* positioner: path is None or "-"
    handle,     \* positioner: what a seek on the input does: "file", "pipe", "bad"
    content,    \* positioner: the bytes of the input
    pos,        \* positioner: the cursor of the input handle (bytes before it)
    range,      \* positioner: the Range (start, count)
    pc,         \* positioner: where run() is
    limit,      \* positioner: bytes the reader in use may still yield, or None
    total,      \* positioner: io_copy's total
    out,        \* positioner: the bytes written to the output
    res,        \* positioner: Pending, "ok" or an error
    ops,        \* positioner: the operations issued on the handle, in order
    intr        \* positioner: reads that reported Interrupted so far

parseVars == <<input, gen, result, resultNom>>
numVars == <<num, norm, build, bytesOut, tryOut>>
posVars == <<platform, isStdin, handle, content, pos, range, pc, limit, total,
             out, res, ops, intr>>
vars == <<input, gen, result, resultNom, num, norm, build, bytesOut, tryOut,
          platform, isStdin, handle, content, pos, range, pc, limit, total, out,
          res, ops, intr>>

\* Option<T>: None and Some(x); a result not computed yet
None == [some |-> FALSE]
Some(x) == [some |-> TRUE, val |-> x]
Pending == [pending |-> TRUE]

Min(a, b) == IF a <= b THEN a ELSE b

-----------------------------------------------------------------------------
(* Natural numbers of any size.                                            *)

Base == 2^15

RECURSIVE FromInt(_)
FromInt(k) == IF k = 0 THEN <<>> ELSE <<k % Base>> \o FromInt(k \div Base)

RECURSIVE Trim(_)
Trim(a) ==
    IF a = <<>> THEN a
    ELSE IF a[Len(a)] = 0 THEN Trim(SubSeq(a, 1, Len(a) - 1)) ELSE a

Limb(a, i) == IF i <= Len(a) THEN a[i] ELSE 0

RECURSIVE AddFrom(_, _, _, _)
AddFrom(a, b, i, carry) ==
    IF i > Len(a) /\ i > Len(b)
    THEN IF carry = 0 THEN <<>> ELSE <<carry>>
    ELSE LET t == Limb(a, i) + Limb(b, i) + carry
         IN  <<t % Base>> \o AddFrom(a, b, i + 1, t \div Base)

Add(a, b) == AddFrom(a, b, 1, 0)

RECURSIVE SubFrom(_, _, _, _)
SubFrom(a, b, i, borrow) ==
    IF i > Len(a) THEN <<>>
    ELSE LET t == a[i] - Limb(b, i) - borrow
         IN  IF t < 0 THEN <<t + Base>> \o SubFrom(a, b, i + 1, 1)
                      ELSE <<t>> \o SubFrom(a, b, i + 1, 0)

RECURSIVE LessFrom(_, _, _)
LessFrom(a, b, i) ==
    IF i = 0 THEN FALSE
    ELSE IF a[i] # b[i] THEN a[i] < b[i] ELSE LessFrom(a, b, i - 1)

\* a < b
Less(a, b) ==
    IF Len(a) # Len(b) THEN Len(a) < Len(b) ELSE LessFrom(a, b, Len(a))

Leq(a, b) == ~Less(b, a)

\* a - b, for b <= a
Sub(a, b) == Trim(SubFrom(a, b, 1, 0))

RECURSIVE MulSmallFrom(_, _, _, _)
MulSmallFrom(a, k, i, carry) ==
    IF i > Len(a) THEN FromInt(carry)
    ELSE LET t == a[i] * k + carry
         IN  <<t % Base>> \o MulSmallFrom(a, k, i + 1, t \div Base)

\* a * k, for a small k (0 <= k < Base)
MulSmall(a, k) == IF k = 0 THEN <<>> ELSE MulSmallFrom(a, k, 1, 0)

RECURSIVE MulFrom(_, _, _)
MulFrom(a, b, i) ==
    IF i > Len(b) THEN <<>>
    ELSE Add(MulSmall(a, b[i]), IF a = <<>> THEN <<>> ELSE <<0>> \o MulFrom(a, b, i + 1))

Mul(a, b) == Trim(MulFrom(a, b, 1))

\* a / d and a % d for a small d (0 < d < Base), limb by limb from the top
RECURSIVE DivSmallFrom(_, _, _, _)
DivSmallFrom(a, d, i, r) ==
    LET Put(low, t) == [q |-> low.q \o <<t \div d>>, r |-> low.r]
        Step(t) == Put(DivSmallFrom(a, d, i - 1, t % d), t)
    IN  IF i = 0 THEN [q |-> <<>>, r |-> r] ELSE Step(r * Base + a[i])

\* a / d for a small d
DivSmall(a, d) == Trim(DivSmallFrom(a, d, Len(a), 0).q)

Zero == <<>>
One == <<1>>
\* 2^64; u64::MAX; i64::MAX as u64
TwoTo64 == Mul(Mul(FromInt(2^16), FromInt(2^16)), Mul(FromInt(2^16), FromInt(2^16)))
U64Max == Sub(TwoTo64, One)
I64Max == Sub(Mul(FromInt(2^21), Mul(FromInt(2^21), FromInt(2^21))), One)

\* Result<T, E>: Ok(x) and Err(e)
Ok(x) == [ok |-> TRUE, val |-> x]
Err(e) == [ok |-> FALSE, err |-> e]

\* The value of a checked operation on u64: None when no u64 holds it
FitsU64(t) == IF Leq(t, U64Max) THEN Some(t) ELSE None

\* u64::checked_add, u64::checked_sub, u64::checked_mul
checked_add(a, b) == FitsU64(Add(a, b))
checked_sub(a, b) == IF Less(a, b) THEN None ELSE Some(Sub(a, b))
checked_mul(a, b) == FitsU64(Mul(a, b))

-----------------------------------------------------------------------------
(* Characters and std's conversion of digits.                              *)

DecDigits == <<"0", "1", "2", "3", "4", "5", "6", "7", "8", "9">>
HexLower == DecDigits \o <<"a", "b", "c", "d", "e", "f">>
HexUpper == DecDigits \o <<"A", "B", "C", "D", "E", "F">>

\* char::is_digit(radix), char::to_digit(radix) for radix 10 and 16
IsDigit(c, radix) == \E i \in 1..radix : HexLower[i] = c \/ HexUpper[i] = c
ToDigit(c, radix) == (CHOOSE i \in 1..radix : HexLower[i] = c \/ HexUpper[i] = c) - 1

\* str::replace('_', "")
StripUnderscores(s) == SelectSeq(s, LAMBDA c : c # "_")

\* The digit loop of u64::from_str_radix: every character must be a digit of
\* the radix, and the multiply and the add are checked.
RECURSIVE FromDigits(_, _, _, _)
FromDigits(s, radix, i, acc) ==
    LET Rest(a) == IF a = None THEN Err("PosOverflow")
                   ELSE FromDigits(s, radix, i + 1, a.val)
        AddDigit(m) == IF m = None THEN None
                       ELSE checked_add(m.val, FromInt(ToDigit(s[i], radix)))
    IN  IF i > Len(s) THEN Ok(acc)
        ELSE IF ~IsDigit(s[i], radix) THEN Err("InvalidDigit")
        ELSE Rest(AddDigit(checked_mul(acc, FromInt(radix))))

\* u64::from_str_radix(s, radix): an empty string and a lone sign are errors,
\* one leading "+" is accepted, "-" is no digit of an unsigned number.
from_str_radix(s, radix) ==
    IF s = <<>> THEN Err("Empty")
    ELSE IF Len(s) = 1 /\ s[1] \in {"+", "-"} THEN Err("InvalidDigit")
    ELSE FromDigits(s, radix, IF s[1] = "+" THEN 2 ELSE 1, Zero)

-----------------------------------------------------------------------------
(* src/main.rs: Range::from_str, with the regex crate.                     *)

\* fn parse_number: underscores removed, then hex after "0x", else decimal
parse_number(s) ==
    LET Radix(t) == IF Len(t) >= 2 /\ t[1] = "0" /\ t[2] = "x" THEN 16 ELSE 10
        Parse(t, radix) ==
            from_str_radix(IF radix = 16 THEN SubSeq(t, 3, Len(t)) ELSE t, radix)
        Stripped(t) == Parse(t, Radix(t))
    IN  Stripped(StripUnderscores(s))

\* [[:xdigit:]_]
XDigitOrUnderscore(c) == IsDigit(c, 16) \/ c = "_"

\* Whether t, whole, matches (?:0x)?[[:xdigit:]_]+
NumberGroup(t) ==
    \/ /\ Len(t) >= 1
       /\ \A i \in 1..Len(t) : XDigitOrUnderscore(t[i])
    \/ /\ Len(t) >= 3
       /\ t[1] = "0" /\ t[2] = "x"
       /\ \A i \in 3..Len(t) : XDigitOrUnderscore(t[i])

\* The places where the separator of
\* ^(?P<start>G)?(?P<sep>[+-])(?P<end>G)?$ can match in s, G being the
\* group (?:0x)?[[:xdigit:]_]+.  No character of G is a separator, so
\* there is one such place at most.
Separators(s) ==
    {i \in 1..Len(s) :
        /\ s[i] \in {"+", "-"}
        /\ i = 1 \/ NumberGroup(SubSeq(s, 1, i - 1))
        /\ i = Len(s) \/ NumberGroup(SubSeq(s, i + 1, Len(s)))}

\* re.captures(s): the groups start, sep and end (None for a group that
\* took no part), or None when the string does not match.
Captures(s) ==
    LET Groups(i) == [start |-> IF i = 1 THEN None ELSE Some(SubSeq(s, 1, i - 1)),
                      sep |-> s[i],
                      end |-> IF i = Len(s) THEN None
                              ELSE Some(SubSeq(s, i + 1, Len(s)))]
        Match(seps) == IF seps = {} THEN None
                       ELSE Some(Groups(CHOOSE i \in seps : TRUE))
    IN  Match(Separators(s))

\* caps.name(..).map(|cap| parse_number(cap.as_str())).transpose()
ParseGroup(cap) ==
    LET Transpose(n) == IF n.ok THEN Ok(Some(n.val)) ELSE n
    IN  IF cap = None THEN Ok(None) ELSE Transpose(parse_number(cap.val))

\* The inclusive count without the + 1 (a half-open end)
InclusiveCount_NoPlusOne(start, end) ==
    LET Minus(d) == IF d = None THEN Err("EndBeforeStart") ELSE Ok(d)
    IN  Minus(checked_sub(end, start))

\* The inclusive count as (end + 1) - start: the + 1 made before the subtraction
InclusiveCount_AddFirst(start, end) ==
    LET Minus(d) == IF d = None THEN Err("EndBeforeStart") ELSE Ok(d)
        PlusOne(e) == IF e = None THEN Err("Overflow")
                      ELSE Minus(checked_sub(e.val, start))
    IN  IF Less(end, start) THEN Err("EndBeforeStart")
        ELSE PlusOne(checked_add(end, One))

\* The count of the inclusive form: end - start + 1, both steps checked
InclusiveCount(start, end) ==
    LET PlusOne(c) == IF c = None THEN Err("Overflow") ELSE Ok(c)
        Minus(d) == IF d = None THEN Err("EndBeforeStart")
                    ELSE PlusOne(checked_add(d.val, One))
    IN  Minus(checked_sub(end, start))

\* The '+' form taken for an inclusive end as well
CountOf_AlwaysInclusive(sep, start, end) ==
    IF end = None THEN Ok(None) ELSE InclusiveCount(start, end.val)

\* match (sep, end)
CountOf(sep, start, end) ==
    IF end = None THEN Ok(None)
    ELSE IF sep = "+" THEN Ok(end)
    ELSE InclusiveCount(start, end.val)

\* The bound of start made strict
StartFits_Strict(start) == Less(start, I64Max)

\* ensure!(start <= i64::MAX as u64, ...)
StartFits(start) == Leq(start, I64Max)

\* unwrap_or(0)
UnwrapOrZero(opt) == IF opt = None THEN Zero ELSE opt.val

\* <Range as FromStr>::from_str of main.rs
from_str(s) ==
    LET Build(start, count) ==
            IF ~count.ok THEN Err(count.err)
            ELSE Ok([start |-> start, count |-> count.val])
        WithEnd(caps, start, end) ==
            IF ~end.ok THEN Err("InvalidEnd")
            ELSE Build(start, CountOf(caps.sep, start, end.val))
        WithStart(caps, start) ==
            IF ~StartFits(start) THEN Err("StartTooLarge")
            ELSE WithEnd(caps, start, ParseGroup(caps.end))
        StartOf(caps, start) ==
            IF ~start.ok THEN Err("InvalidStart")
            ELSE WithStart(caps, UnwrapOrZero(start.val))
        WithCaps(re) ==
            IF re = None THEN Err("InvalidFormat")
            ELSE StartOf(re.val, ParseGroup(re.val.start))
    IN  WithCaps(Captures(s))

-----------------------------------------------------------------------------
(* src/range.rs: Range::from_str, with nom.  A parser is applied to the    *)
(* string s at the index i of its next character and returns Ok of what it *)
(* produced (out) and of the index after what it consumed (rest), or Err   *)
(* (nom's recoverable Err::Error).                                         *)

\* The index after the longest run of characters from i on that are in
\* the class: digits of the radix, or (radix 0) the character '_'.
RunEnd(s, i, radix) ==
    LET In(c) == IF radix = 0 THEN c = "_" ELSE IsDigit(c, radix)
    IN  CHOOSE j \in i..(Len(s) + 1) :
            /\ \A k \in i..(j - 1) : In(s[k])
            /\ j = Len(s) + 1 \/ ~In(s[j])

\* digit1 (radix 10) and hex_digit1 (radix 16): one or more digits
digit1(s, i, radix) ==
    LET Run(j) == IF j = i THEN Err("Digit") ELSE Ok([rest |-> j])
    IN  Run(RunEnd(s, i, radix))

\* many0(char('_'))
many0_underscore(s, i) == Ok([rest |-> RunEnd(s, i, 0)])

\* terminated(digit1, many0(char('_')))
digit_group(s, i, radix) ==
    LET Then(d) == IF ~d.ok THEN d ELSE many0_underscore(s, d.val.rest)
    IN  Then(digit1(s, i, radix))

\* The loop of many1 after its first success: apply the parser until it fails
RECURSIVE many_more(_, _, _)
many_more(s, i, radix) ==
    LET Loop(g) == IF ~g.ok THEN Ok([rest |-> i]) ELSE many_more(s, g.val.rest, radix)
    IN  Loop(digit_group(s, i, radix))

\* recognize(many1(terminated(digit1, many0(char('_'))))): the text consumed
recognize_digits(s, i, radix) ==
    LET Slice(j) == Ok([rest |-> j, out |-> SubSeq(s, i, j - 1)])
        First(g) == IF ~g.ok THEN Err("Many1")
                    ELSE Slice(many_more(s, g.val.rest, radix).val.rest)
    IN  First(digit_group(s, i, radix))

\* alt((tag("0x"), tag("0X")))
hex_prefix(s, i) ==
    IF i + 1 <= Len(s) /\ s[i] = "0" /\ s[i + 1] \in {"x", "X"}
    THEN Ok([rest |-> i + 2])
    ELSE Err("Tag")

\* map_res(recognize(...), |out| from_str_radix(out.replace('_', ""), radix))
map_res_digits(s, i, radix) ==
    LET Map(r, n) == IF n.ok THEN Ok([rest |-> r.val.rest, out |-> n.val])
                     ELSE Err("MapRes")
        Recognized(r) ==
            IF ~r.ok THEN r
            ELSE Map(r, from_str_radix(StripUnderscores(r.val.out), radix))
    IN  Recognized(recognize_digits(s, i, radix))

\* fn hex (radix 16): preceded(alt((tag("0x"), tag("0X"))), ...) under the
\* map_res; fn dec (radix 10): no prefix
prefixed_digits(s, i, radix) ==
    LET Preceded(p) == IF ~p.ok THEN p ELSE map_res_digits(s, p.val.rest, radix)
    IN  Preceded(IF radix = 16 THEN hex_prefix(s, i) ELSE Ok([rest |-> i]))

hex(s, i) == prefixed_digits(s, i, 16)
dec(s, i) == prefixed_digits(s, i, 10)

\* alt((hex, dec)) from the second parser on: the first one's result h
\* stands when it is Ok
alt_number(s, i, h, radix) == IF h.ok THEN h ELSE prefixed_digits(s, i, radix)

\* fn number: alt((hex, dec))
number(s, i) == alt_number(s, i, alt_number(s, i, Err("Alt"), 16), 10)

\* opt(number): an error is None with nothing consumed
opt_number(s, i) ==
    LET Opt(n) == IF n.ok THEN Ok([rest |-> n.val.rest, out |-> Some(n.val.out)])
                  ELSE Ok([rest |-> i, out |-> None])
    IN  Opt(number(s, i))

\* one_of("-+")
one_of_sep(s, i) ==
    IF i <= Len(s) /\ s[i] \in {"-", "+"}
    THEN Ok([rest |-> i + 1, out |-> s[i]])
    ELSE Err("OneOf")

\* An end-of-input check that accepts what is left
eof_Anywhere(s, i) == Ok([rest |-> i])

\* eof
eof(s, i) == IF i > Len(s) THEN Ok([rest |-> i]) ELSE Err("Eof")

\* fn parse_range_pieces
parse_range_pieces(s) ==
    LET Pieces(start, mode, end, e) ==
            IF ~e.ok THEN e
            ELSE Ok([rest |-> e.val.rest,
                     out |-> [start |-> start.val.out, mode |-> mode.val.out,
                              end |-> end.val.out]])
        AfterEnd(start, mode, end) == Pieces(start, mode, end, eof(s, end.val.rest))
        AfterMode(start, mode) ==
            IF ~mode.ok THEN mode
            ELSE AfterEnd(start, mode, opt_number(s, mode.val.rest))
        AfterStart(start) == AfterMode(start, one_of_sep(s, start.val.rest))
    IN  AfterStart(opt_number(s, 1))

\* The count of the inclusive form in range.rs
InclusiveCountNom(start, end) ==
    LET PlusOne(c) == IF c = None THEN Err("Overflow") ELSE Ok(c)
        Minus(d) == IF d = None THEN Err("EndBeforeStart")
                    ELSE PlusOne(checked_add(d.val, One))
    IN  Minus(checked_sub(end, start))

\* match (pieces.mode, pieces.end) of range.rs
CountOfNom(mode, start, end) ==
    IF end = None THEN Ok(None)
    ELSE IF mode = "+" THEN Ok(end)
    ELSE InclusiveCountNom(start, end.val)

\* <Range as FromStr>::from_str of range.rs
range_from_str(s) ==
    LET Build(start, count) ==
            IF ~count.ok THEN Err(count.err)
            ELSE Ok([start |-> start, count |-> count.val])
        WithStart(pieces, start) ==
            IF Less(I64Max, start) THEN Err("StartOutOfBounds")
            ELSE Build(start, CountOfNom(pieces.mode, start, pieces.end))
        Parsed(p) ==
            IF ~p.ok THEN Err("Nom")
            ELSE WithStart(p.val.out, UnwrapOrZero(p.val.out.start))
    IN  Parsed(parse_range_pieces(s))

-----
(* The range expressions parsed.  An expression is written from the        *)
(* numbers it means (gen), so that what a parser returns is compared with  *)
(* the numbers and not with another conversion of the text, or is any      *)
(* short text over Alphabet, or is one of the texts of tests::range_test.  *)

MaxSmall == 2
Delta == 1
MaxGroup == 2
MaxLen == 4

Alphabet == {"0", "1", "a", "R", "x", "X", "_", "-", "+"}

\* 0x123456789abcdef: every hex digit but 0
MidValue ==
    Add(Mul(FromInt(1193046), Mul(FromInt(2^18), FromInt(2^18))),
        Add(Mul(FromInt(493995), FromInt(2^16)), FromInt(52719)))

\* The numbers written: small ones, one with many different digits, and
\* the neighbours of i64::MAX and of u64::MAX
Values ==
    {FromInt(k) : k \in 0..MaxSmall} \cup {MidValue}
    \cup {Sub(I64Max, FromInt(d)) : d \in 0..Delta}
    \cup {Add(I64Max, FromInt(d + 1)) : d \in 0..Delta}
    \cup {Sub(U64Max, FromInt(d)) : d \in 0..Delta}

\* Numbers that no u64 holds
TooBig == {Add(U64Max, FromInt(d + 1)) : d \in 0..Delta}

\* The digits of v in the radix, the most significant first, by division
RECURSIVE DigitsOf(_, _)
DigitsOf(v, radix) ==
    IF v = Zero THEN <<>>
    ELSE LET qr == DivSmallFrom(v, radix, Len(v), 0)
         IN  DigitsOf(Trim(qr.q), radix) \o <<qr.r>>

\* A way of writing a number: the radix, the letter of the hex prefix, the
\* case of the hex digits, the grouping characters between two digits
PlainFormats == {[radix |-> r, prefix |-> "x", upper |-> FALSE, group |-> 0] : r \in {10, 16}}
Formats ==
    {[radix |-> 10, prefix |-> "x", upper |-> FALSE, group |-> g] : g \in 0..MaxGroup}
    \cup {[radix |-> 16, prefix |-> p, upper |-> u, group |-> g] :
            p \in {"x", "X"}, u \in BOOLEAN, g \in 0..MaxGroup}

\* The number v written in the format f
Render(v, f) ==
    LET ds == IF v = Zero THEN <<0>> ELSE DigitsOf(v, f.radix)
        chars == IF f.upper THEN HexUpper ELSE HexLower
        n == Len(ds) + (Len(ds) - 1) * f.group
        body == [p \in 1..n |->
                    IF (p - 1) % (f.group + 1) = 0
                    THEN chars[ds[((p - 1) \div (f.group + 1)) + 1] + 1]
                    ELSE "_"]
    IN  IF f.radix = 16 THEN <<"0", f.prefix>> \o body ELSE body

\* Both numbers in a plain format each, or one number in any format
NumGens ==
    LET Sides(fs) == {None} \cup {Some([v |-> v, f |-> f]) : v \in Values \cup TooBig, f \in fs}
    IN  {[kind |-> "num", start |-> a, sep |-> c, end |-> b] :
            a \in Sides(PlainFormats), b \in Sides(PlainFormats), c \in {"-", "+"}}
        \cup {[kind |-> "num", start |-> a, sep |-> c, end |-> None] :
            a \in Sides(Formats), c \in {"-", "+"}}
        \cup {[kind |-> "num", start |-> None, sep |-> c, end |-> b] :
            b \in Sides(Formats), c \in {"-", "+"}}

Rep(c, n) == [i \in 1..n |-> c]

\* The expressions of tests::range_test
TestInputs == {
    <<"-">>, <<"+">>, <<"1", "0", "-">>, <<"-", "1", "0">>, <<"+", "2", "0">>,
    <<"1", "0", "-", "1", "2">>, <<"1", "2", "3", "+", "4", "5", "6">>,
    <<"-", "0", "x", "f", "f">>, <<"+", "0", "x", "f", "f">>,
    <<"0", "x", "1", "0", "0", "-", "0", "x", "2", "0", "0">>,
    <<"0", "x", "2", "0", "0", "-">>, <<"1", "6", "-", "0", "x", "f", "f">>,
    <<"1", "_", "0", "0", "0", "-", "0", "x">> \o Rep("f", 4) \o <<"_">> \o Rep("f", 4),
    <<"1">> \o Rep("_", 6) \o <<"0", "+">>,
    <<"1", "_", "2", "_", "3", "_", "4", "+", "9", "9">>,
    <<"a", "s", "d", "f">>, <<"1", "-", "0", "x", "a", "b", "c", "R">>, <<"1", "0">>,
    <<"0", "x", "8">> \o Rep("0", 7) \o <<"_">> \o Rep("0", 8) \o <<"+", "1", "0">>,
    <<"0", "-", "0", "x">> \o Rep("f", 8) \o <<"_">> \o Rep("f", 8) }

Texts == UNION {[1..n -> Alphabet] : n \in 0..MaxLen} \cup TestInputs

Gens == NumGens \cup {[kind |-> "text", text |-> t] : t \in Texts}

SideText(side) == IF side = None THEN <<>> ELSE Render(side.val.v, side.val.f)

InputOf(g) ==
    IF g.kind = "text" THEN g.text
    ELSE SideText(g.start) \o <<g.sep>> \o SideText(g.end)

IdleParse == input = Pending /\ gen = Pending /\ result = Pending /\ resultNom = Pending
IdleNum ==
    /\ num = Pending /\ norm = Pending /\ build = Pending
    /\ bytesOut = Pending /\ tryOut = Pending
IdlePos ==
    /\ platform = Pending /\ isStdin = Pending /\ handle = Pending
    /\ content = Pending /\ pos = Pending /\ range = Pending /\ pc = Pending
    /\ limit = Pending /\ total = Pending /\ out = Pending /\ res = Pending
    /\ ops = Pending /\ intr = Pending

InitParse ==
    /\ gen \in Gens
    /\ input = InputOf(gen)
    /\ result = Pending
    /\ resultNom = Pending
    /\ IdleNum /\ IdlePos

\* args.range.parse() in main.rs
ParseMain ==
    /\ result = Pending
    /\ result' = from_str(input)
    /\ UNCHANGED <<input, gen, resultNom, numVars, posVars>>

\* s.parse::<Range>() with the parser of range.rs
ParseNom ==
    /\ resultNom = Pending
    /\ resultNom' = range_from_str(input)
    /\ UNCHANGED <<input, gen, result, numVars, posVars>>

NextParse == ParseMain \/ ParseNom

SpecParse == InitParse /\ [][NextParse]_vars

-----------------------------------------------------------------------------
(* src/main.rs: prepare_input and io_copy, as run() uses them.  The input  *)
(* is a handle with a cursor (pos) over its bytes (content); what a seek   *)
(* on it does is its kind: a regular file takes it, a pipe refuses it with *)
(* ESPIPE, and "bad" stands for a handle whose seek fails with any other   *)
(* error.  Both builds are modelled: cfg(unix) and cfg(not(unix)).         *)

MaxContent == 4
MaxStart == 3
MaxCount == 3
MaxIntr == 2

\* const BUF_SIZE: usize = 1024 * 1024
BUF_SIZE == 1024 * 1024

InitPos ==
    /\ platform \in {"unix", "other"}
    /\ isStdin \in BOOLEAN
    /\ handle \in {"file", "pipe", "bad"}
    /\ content \in {[i \in 1..n |-> i] : n \in 0..MaxContent}
    /\ range \in [start : 0..MaxStart,
                  count : {None} \cup {Some(k) : k \in 0..MaxCount}]
    /\ pos = 0
    /\ pc = "open"
    /\ limit = None
    /\ total = 0
    /\ out = <<>>
    /\ res = Pending
    /\ ops = <<>>
    /\ intr = 0
    /\ IdleParse /\ IdleNum

\* cfg(not(unix)) with is_stdin: io::stdin(), which is neither opened nor sought
StdStdin == platform = "other" /\ isStdin

\* (&mut file).take(range.start), stdin.lock().take(range.start)
Discard_Nothing(start) == Some(0)
Discard(start) == Some(start)

\* The discarding read taken at once, whatever the build and the input
AfterOpen_NoSeek == IF range.start = 0 THEN "bound" ELSE "skip"

\* Where prepare_input goes once it holds the handle: `if range.start != 0`
AfterOpen ==
    IF range.start = 0 THEN "bound"
    ELSE IF StdStdin THEN "skip" ELSE "seek"

\* libc::dup(STDIN_FILENO), File::open(path), io::stdin()
Open ==
    /\ pc = "open"
    /\ pc' = AfterOpen
    /\ limit' = IF AfterOpen = "skip" THEN Discard(range.start) ELSE limit
    /\ UNCHANGED <<platform, isStdin, handle, content, pos, range, total, out,
                   res, ops, intr, parseVars, numVars>>

\* fd == -1, or File::open(..)? fails
OpenFail ==
    /\ pc = "open"
    /\ ~StdStdin
    /\ pc' = "failed"
    /\ res' = Err("open")
    /\ UNCHANGED <<platform, isStdin, handle, content, pos, range, limit, total,
                   out, ops, intr, parseVars, numVars>>

\* file.seek(SeekFrom::Current(range.start)) on the handle
SeekResult(h) ==
    IF h = "file" THEN "ok" ELSE IF h = "pipe" THEN "ESPIPE" ELSE "EIO"

\* The arm of the seek's error that reads and throws away: ESPIPE on unix,
\* every error otherwise
FallsBack_Always(plat, errno) == TRUE
FallsBack(plat, errno) == plat = "other" \/ errno = "ESPIPE"

\* match file.seek(..) { Ok(_) => () ... }
SeekOk ==
    /\ pc = "seek"
    /\ SeekResult(handle) = "ok"
    /\ pos' = pos + range.start
    /\ ops' = Append(ops, "seek")
    /\ pc' = "bound"
    /\ UNCHANGED <<platform, isStdin, handle, content, range, limit, total, out,
                   res, intr, parseVars, numVars>>

\* The seek fails and the arm falls back: take(range.start), io_copy to the sink
SeekFallback ==
    /\ pc = "seek"
    /\ SeekResult(handle) # "ok"
    /\ FallsBack(platform, SeekResult(handle))
    /\ ops' = Append(ops, "seek")
    /\ limit' = Discard(range.start)
    /\ total' = 0
    /\ pc' = "skip"
    /\ UNCHANGED <<platform, isStdin, handle, content, pos, range, out, res,
                   intr, parseVars, numVars>>

\* Err(e) => return Err(e)
SeekFail ==
    /\ pc = "seek"
    /\ SeekResult(handle) # "ok"
    /\ ~FallsBack(platform, SeekResult(handle))
    /\ ops' = Append(ops, "seek")
    /\ res' = Err("seek")
    /\ pc' = "failed"
    /\ UNCHANGED <<platform, isStdin, handle, content, pos, range, limit, total,
                   out, intr, parseVars, numVars>>

\* The bound of the source returned: file.take(count) on unix, none otherwise
SourceLimit(plat, count) == IF plat = "unix" THEN count ELSE None

\* match range.count {..} on unix; Ok(Box::new(stdin)), Ok(Box::new(file)) otherwise;
\* then run() starts io_copy(&mut input, &mut output)
Bound ==
    /\ pc = "bound"
    /\ limit' = SourceLimit(platform, range.count)
    /\ res' = Ok("source")
    /\ total' = 0
    /\ pc' = "copy"
    /\ UNCHANGED <<platform, isStdin, handle, content, pos, range, out, ops,
                   intr, parseVars, numVars>>

\* Bytes of the handle after its cursor
Avail == IF pos >= Len(content) THEN 0 ELSE Len(content) - pos

\* The most one read of the reader takes: the buffer, cut by Take to its limit
ReadMax == IF limit = None THEN BUF_SIZE ELSE Min(BUF_SIZE, limit.val)

Copying == pc \in {"skip", "copy"}

\* A read on the handle while discarding is recorded
Issued == IF pc = "skip" THEN Append(ops, "read") ELSE ops

\* io_copy: Ok(count) => count; write_all; total += count
IoRead ==
    /\ Copying
    /\ \E n \in 1..Min(ReadMax, Avail) :
        /\ pos' = pos + n
        /\ limit' = IF limit = None THEN None ELSE Some(limit.val - n)
        /\ total' = total + n
        /\ out' = IF pc = "copy" THEN out \o SubSeq(content, pos + 1, pos + n)
                                 ELSE out
    /\ ops' = Issued
    /\ UNCHANGED <<platform, isStdin, handle, content, range, pc, res, intr,
                   parseVars, numVars>>

\* io_copy: Ok(0) => break: the Take is at its limit (it reads nothing) or
\* the handle is at its end
IoEof ==
    /\ Copying
    /\ ReadMax = 0 \/ Avail = 0
    /\ ops' = IF ReadMax = 0 THEN ops ELSE Issued
    /\ pc' = IF pc = "skip" THEN "bound" ELSE "done"
    /\ UNCHANGED <<platform, isStdin, handle, content, pos, range, limit, total,
                   out, res, intr, parseVars, numVars>>

\* An Interrupted read taken for any other error
IoInterrupted_Fails ==
    /\ Copying
    /\ ReadMax > 0
    /\ intr < MaxIntr
    /\ intr' = intr + 1
    /\ ops' = Issued
    /\ res' = IF pc = "skip" THEN Err("read") ELSE res
    /\ pc' = "failed"
    /\ UNCHANGED <<platform, isStdin, handle, content, pos, range, limit,
                   total, out, parseVars, numVars>>

\* io_copy: Err(e) if e.kind() == Interrupted => continue
IoInterrupted ==
    /\ Copying
    /\ ReadMax > 0
    /\ intr < MaxIntr
    /\ intr' = intr + 1
    /\ ops' = Issued
    /\ UNCHANGED <<platform, isStdin, handle, content, pos, range, pc, limit,
                   total, out, res, parseVars, numVars>>

\* io_copy: Err(e) => return Err(e); in prepare_input the `?` returns it
IoReadFail ==
    /\ Copying
    /\ ReadMax > 0
    /\ ops' = Issued
    /\ res' = IF pc = "skip" THEN Err("read") ELSE res
    /\ pc' = "failed"
    /\ UNCHANGED <<platform, isStdin, handle, content, pos, range, limit, total,
                   out, intr, parseVars, numVars>>

\* io_copy: writer.write_all(&buf[..count])? fails after k of the bytes read
\* (the sink never fails)
IoWriteFail ==
    /\ pc = "copy"
    /\ \E n \in 1..Min(ReadMax, Avail) : \E k \in 0..(n - 1) :
        /\ pos' = pos + n
        /\ limit' = IF limit = None THEN None ELSE Some(limit.val - n)
        /\ out' = out \o SubSeq(content, pos + 1, pos + k)
    /\ pc' = "failed"
    /\ UNCHANGED <<platform, isStdin, handle, content, range, total, res, ops,
                   intr, parseVars, numVars>>

NextPos ==
    \/ Open \/ OpenFail
    \/ SeekOk \/ SeekFallback \/ SeekFail
    \/ Bound
    \/ IoRead \/ IoEof \/ IoInterrupted \/ IoReadFail \/ IoWriteFail

SpecPos == InitPos /\ [][NextPos]_vars

\* The program runs on: a step that can be taken is taken.  A reader reports
\* Interrupted MaxIntr times at most, so it stops reporting it.
SpecPosFair == SpecPos /\ WF_vars(NextPos)

-----------------------------------------------------------------------------
(* src/rangeparse.rs: Suffix and Number.                                   *)

\* enum Suffix
Suffixes == {"B", "KB", "MB", "GB", "TB", "Ki", "Mi", "Gi", "Ti"}

\* The discriminants of Suffix
KB == FromInt(1000)
MB == FromInt(1000 * 1000)
GB == FromInt(1000 * 1000 * 1000)
TB == Mul(MB, MB)
Ki == FromInt(2^10)
Mi == FromInt(2^20)
Gi == FromInt(2^30)
Ti == Mul(Mi, Mi)

\* Suffix::multiplier
multiplier(suffix) ==
    IF suffix = "B" THEN One
    ELSE IF suffix = "KB" THEN KB
    ELSE IF suffix = "MB" THEN MB
    ELSE IF suffix = "GB" THEN GB
    ELSE IF suffix = "TB" THEN TB
    ELSE IF suffix = "Ki" THEN Ki
    ELSE IF suffix = "Mi" THEN Mi
    ELSE IF suffix = "Gi" THEN Gi
    ELSE Ti

\* Number::new
new(value, suffix) == [value |-> value, suffix |-> suffix]

\* Number::bytes_u128: the product in 128 bits, which two u64 never exceed
bytes_u128(n) == Mul(n.value, multiplier(n.suffix))

\* A multiplier as a product of factors below Base
FactorsOf(m) ==
    IF m = KB THEN <<1000>>
    ELSE IF m = MB THEN <<1000, 1000>>
    ELSE IF m = GB THEN <<1000, 1000, 1000>>
    ELSE IF m = TB THEN <<1000, 1000, 1000, 1000>>
    ELSE IF m = Ki THEN <<1024>>
    ELSE IF m = Mi THEN <<1024, 1024>>
    ELSE IF m = Gi THEN <<1024, 1024, 1024>>
    ELSE IF m = Ti THEN <<1024, 1024, 1024, 1024>>
    ELSE <<>>

\* a divided by the factors fs[i..], one after the other
RECURSIVE DivFactors(_, _, _)
DivFactors(a, fs, i) ==
    IF i > Len(fs) THEN a ELSE DivFactors(DivSmall(a, fs[i]), fs, i + 1)

\* val / m and val % m on u128, for a multiplier m
DivMod(val, m) ==
    LET Both(q) == [q |-> q, r |-> Sub(val, Mul(q, m))]
    IN  Both(DivFactors(val, FactorsOf(m), 1))

\* val % m == 0
Divides(m, val) == DivMod(val, m).r = Zero

\* `as u64`: the low 64 bits, which are four limbs and four bits
AsU64(x) ==
    Trim([i \in 1..Min(Len(x), 5) |-> IF i = 5 THEN x[i] % 2^4 ELSE x[i]])

\* The chain of normalize with the decimal scale tried before the binary one
SuffixFor_DecimalFirst(val) ==
    IF Divides(TB, val) THEN "TB"
    ELSE IF Divides(Ti, val) THEN "Ti"
    ELSE IF Divides(GB, val) THEN "GB"
    ELSE IF Divides(Gi, val) THEN "Gi"
    ELSE IF Divides(MB, val) THEN "MB"
    ELSE IF Divides(Mi, val) THEN "Mi"
    ELSE IF Divides(KB, val) THEN "KB"
    ELSE IF Divides(Ki, val) THEN "Ki"
    ELSE "B"

\* The chain of normalize: the first scale that divides val
SuffixFor(val) ==
    IF Divides(Ti, val) THEN "Ti"
    ELSE IF Divides(TB, val) THEN "TB"
    ELSE IF Divides(Gi, val) THEN "Gi"
    ELSE IF Divides(GB, val) THEN "GB"
    ELSE IF Divides(Mi, val) THEN "Mi"
    ELSE IF Divides(MB, val) THEN "MB"
    ELSE IF Divides(Ki, val) THEN "Ki"
    ELSE IF Divides(KB, val) THEN "KB"
    ELSE "B"

\* Number::normalize
normalize(n) ==
    LET Build(val, suffix) == new(AsU64(DivMod(val, multiplier(suffix)).q), suffix)
        Scale(val) == Build(val, SuffixFor(val))
    IN  IF n.value = Zero THEN new(Zero, "B") ELSE Scale(bytes_u128(n))

\* Number::try_bytes: self.value.checked_mul(self.suffix.multiplier())
try_bytes(n) == checked_mul(n.value, multiplier(n.suffix))

\* What a call does: it returns x, or it panics
Returned(x) == [panic |-> FALSE, val |-> x]
Panicked == [panic |-> TRUE]

\* The operator * on u64: it wraps around on overflow unless the build has
\* overflow checks, where it panics
StarU64(a, b, overflow_checks) ==
    LET Product(t) == IF Leq(t, U64Max) THEN Returned(t)
                      ELSE IF overflow_checks THEN Panicked
                      ELSE Returned(AsU64(t))
    IN  Product(Mul(a, b))

\* Number::bytes: under cfg!(debug_assertions) the value of try_bytes or a
\* panic, otherwise self.value * self.suffix.multiplier()
bytes(n, b) ==
    LET Checked(t) == IF t = None THEN Panicked ELSE Returned(t.val)
    IN  IF b.debug_assertions THEN Checked(try_bytes(n))
        ELSE StarU64(n.value, multiplier(n.suffix), b.overflow_checks)

\* The builds: debug assertions and overflow checks are two settings of the
\* profile, both on in the dev profile and both off in the release profile
\* unless the profile says otherwise
Builds == [debug_assertions : BOOLEAN, overflow_checks : BOOLEAN]

MaxMant == 3
MaxBin == 4
MaxDec == 4

\* The values of the tests of normalize: 1024, 1234, 1_048_576_000
TestValues == {FromInt(1024), FromInt(1234), FromInt(1048576000)}

RECURSIVE PowerOf(_, _)
PowerOf(b, n) == IF n = 0 THEN One ELSE Mul(b, PowerOf(b, n - 1))

\* Values of 64 bits: 0, c * 1024^i * 1000^j, the values of the tests and
\* the largest ones
NumValues ==
    {v \in {Mul(FromInt(c), Mul(PowerOf(Ki, i), PowerOf(KB, j))) :
                c \in 1..MaxMant, i \in 0..MaxBin, j \in 0..MaxDec} :
        Leq(v, U64Max)}
    \cup {Zero, U64Max, Sub(U64Max, One), Add(I64Max, One)} \cup TestValues

InitNum ==
    /\ num \in {new(v, s) : v \in NumValues, s \in Suffixes}
    /\ norm = Pending
    /\ build \in Builds
    /\ bytesOut = Pending
    /\ tryOut = Pending
    /\ IdleParse /\ IdlePos

\* num.normalize()
Normalize ==
    /\ norm = Pending
    /\ norm' = normalize(num)
    /\ UNCHANGED <<num, build, bytesOut, tryOut, parseVars, posVars>>

\* num.bytes()
Bytes ==
    /\ bytesOut = Pending
    /\ bytesOut' = bytes(num, build)
    /\ UNCHANGED <<num, norm, build, tryOut, parseVars, posVars>>

\* num.try_bytes()
TryBytes ==
    /\ tryOut = Pending
    /\ tryOut' = try_bytes(num)
    /\ UNCHANGED <<num, norm, build, bytesOut, parseVars, posVars>>

NextNum == Normalize \/ Bytes \/ TryBytes

SpecNum == InitNum /\ [][NextNum]_vars

-----------------------------------------------------------------------------
(* Properties of the range parsers.                                        *)

Seps == {"-", "+"}

\* The two results, each with the names its parser gives to the errors
Parsers ==
    {[r |-> result, main |-> TRUE, tooLarge |-> "StartTooLarge",
      malformed |-> {"InvalidFormat", "InvalidStart", "InvalidEnd"}],
     [r |-> resultNom, main |-> FALSE, tooLarge |-> "StartOutOfBounds",
      malformed |-> {"Nom"}]}
Parsed == {p \in Parsers : p.r # Pending}

IsNum(g) == g.kind = "num"
HasStart(g) == g.start # None
HasEnd(g) == g.end # None
\* The numbers meant by the expression; an omitted start is 0
StartOf(g) == IF HasStart(g) THEN g.start.val.v ELSE Zero
EndOf(g) == g.end.val.v
\* The expression writes its numbers in digits and lower-case "0x" only
Plain(g) ==
    /\ HasStart(g) => g.start.val.f \in PlainFormats
    /\ HasEnd(g) => g.end.val.f \in PlainFormats
\* Every number written fits in 64 bits
Fitting(g) ==
    /\ HasStart(g) => Leq(g.start.val.v, U64Max)
    /\ HasEnd(g) => Leq(g.end.val.v, U64Max)

RangeOf(start, count) == Ok([start |-> start, count |-> count])

\* The table of the separator and the end: what "N-M", "N+M", "N-", "N+"
\* yield for start N and end M
TableResult(g) ==
    IF ~HasEnd(g) THEN RangeOf(StartOf(g), None)
    ELSE IF g.sep = "+" THEN RangeOf(StartOf(g), Some(EndOf(g)))
    ELSE IF Less(EndOf(g), StartOf(g)) THEN Err("EndBeforeStart")
    ELSE RangeOf(StartOf(g), Some(Add(Sub(EndOf(g), StartOf(g)), One)))

\* start = 0 and end = 2^64-1 in the inclusive form
FullSpan(g) ==
    /\ IsNum(g) /\ g.sep = "-" /\ HasEnd(g)
    /\ StartOf(g) = Zero /\ EndOf(g) = U64Max

RefNumber(t) ==
    LET hexa == Len(t) >= 2 /\ t[1] = "0" /\ t[2] \in {"x", "X"}
        first == IF hexa THEN 3 ELSE 1
        radix == IF hexa THEN 16 ELSE 10
    IN  /\ \A i \in first..Len(t) : t[i] = "_" \/ IsDigit(t[i], radix)
        /\ \E i \in first..Len(t) : IsDigit(t[i], radix)

\* [NUMBER] SEP [NUMBER] and nothing else
WellFormed(s) ==
    \E i \in 1..Len(s) :
        /\ s[i] \in Seps
        /\ i = 1 \/ RefNumber(SubSeq(s, 1, i - 1))
        /\ i = Len(s) \/ RefNumber(SubSeq(s, i + 1, Len(s)))

\* The expressions of the tests that must fail: "10", "asdf", "1-0xabcR"
MustFail ==
    {<<"1", "0">>, <<"a", "s", "d", "f">>, <<"1", "-", "0", "x", "a", "b", "c", "R">>}

\* C2: a parse succeeds only on a string that is, whole, [NUMBER] SEP
\* [NUMBER]; "10", "asdf" and "1-0xabcR" fail with the malformed-range or
\* invalid-number error; a number that does not convert (it fits no u64) is
\* an error and never an omitted number: a Range has no count only when
\* nothing follows the separator, and its start is the number written.
C2_Strict ==
    \A p \in Parsed :
        /\ p.r.ok => /\ WellFormed(input)
                     /\ (p.r.val.count = None) <=> (input[Len(input)] \in Seps)
                     /\ IsNum(gen) => /\ Fitting(gen)
                                      /\ p.r.val.start = StartOf(gen)
        /\ input \in MustFail => ~p.r.ok /\ p.r.err \in p.malformed

C2_Witness ==
    /\ input = <<"1", "-", "0", "x", "a", "b", "c", "R">>
    /\ result # Pending /\ ~result.ok
    /\ resultNom # Pending /\ ~resultNom.ok

\* The expression is one number, valid as a start (at most 2^63-1), and a separator
OneStart(g) ==
    IsNum(g) /\ HasStart(g) /\ ~HasEnd(g) /\ Leq(StartOf(g), I64Max)
\* The expression is a separator and one number that fits in 64 bits
OneEnd(g) ==
    IsNum(g) /\ ~HasStart(g) /\ HasEnd(g) /\ g.sep = "+" /\ Leq(EndOf(g), U64Max)

\* C3 as stated: a literal in decimal digits, or in hex digits of either
\* case after "0x" or "0X", with grouping characters '_' in the digit run,
\* parses to the number its digits mean, in both parsers.
C3_AsStated ==
    \A p \in Parsed :
        /\ OneStart(gen) => p.r = RangeOf(StartOf(gen), None)
        /\ OneEnd(gen) => p.r = RangeOf(Zero, Some(EndOf(gen)))

\* C4: a start of 2^63-1 passes the bound (the parse succeeds when nothing
\* else is wrong with the expression: the end is omitted, or a count, or not
\* before the start); a larger start that fits in 64 bits fails with the
\* start-too-large error; every Range returned has start <= 2^63-1, so
\* start converts to an i64.
C4_StartBound ==
    \A p \in Parsed :
        /\ p.r.ok => Leq(p.r.val.start, I64Max)
        /\ (IsNum(gen) /\ Plain(gen) /\ Fitting(gen) /\ HasStart(gen)) =>
            /\ StartOf(gen) = I64Max =>
                 /\ ~p.r.ok => p.r.err # p.tooLarge
                 /\ (~HasEnd(gen) \/ gen.sep = "+" \/ Leq(StartOf(gen), EndOf(gen)))
                        => p.r.ok /\ p.r.val.start = I64Max
            /\ Less(I64Max, StartOf(gen)) => p.r = Err(p.tooLarge)

C4_Witness ==
    /\ result # Pending /\ result.ok /\ result.val.start = I64Max
    /\ resultNom # Pending /\ resultNom.ok /\ resultNom.val.start = I64Max

\* "0-0xffffffff_ffffffff" of the tests, the grouping character removed
FullSpanText ==
    StripUnderscores(input) = <<"0", "-", "0", "x">> \o Rep("f", 16)

\* C5: the overflow error is the result exactly when start is 0 and end is
\* 2^64-1 in the '-' form; an end before the start is the end-before-start
\* error, whatever end + 1 would be.
C5_Overflow ==
    \A p \in Parsed :
        /\ (p.r = Err("Overflow")) => (FullSpan(gen) \/ FullSpanText)
        /\ ((FullSpan(gen) /\ Plain(gen)) \/ FullSpanText) => p.r = Err("Overflow")
        /\ (/\ IsNum(gen) /\ Plain(gen) /\ Fitting(gen) /\ HasEnd(gen)
            /\ gen.sep = "-" /\ Leq(StartOf(gen), I64Max)
            /\ Less(EndOf(gen), StartOf(gen)))
           => p.r = Err("EndBeforeStart")

C5_Witness ==
    /\ FullSpan(gen) /\ HasStart(gen)
    /\ result = Err("Overflow") /\ resultNom = Err("Overflow")

\* C6 as stated: every Range returned with a count has
\* start + count <= 2^64-1.
C6_AsStated ==
    \A p \in Parsed :
        (p.r.ok /\ p.r.val.count # None)
        => Leq(Add(p.r.val.start, p.r.val.count.val), U64Max)

\* C6, amended: every Range returned with a count has start <= 2^63-1 and
\* count <= 2^64-1; in the '-' form start + count = end + 1, which is at most
\* 2^64 (the offset of the last byte, start + count - 1, fits in 64 bits);
\* in the '+' form count = end whatever start is, and start + count is
\* bounded by (2^63-1) + (2^64-1) only.
C6_Bounds ==
    \A p \in Parsed :
        (p.r.ok /\ p.r.val.count # None) =>
            /\ Leq(p.r.val.start, I64Max)
            /\ Leq(p.r.val.count.val, U64Max)
            /\ (\E i \in 1..Len(input) : input[i] = "-")
                => Leq(Add(p.r.val.start, p.r.val.count.val), TwoTo64)
            /\ (IsNum(gen) /\ gen.sep = "-")
                => Add(p.r.val.start, p.r.val.count.val) = Add(EndOf(gen), One)
            /\ (IsNum(gen) /\ gen.sep = "+") => p.r.val.count.val = EndOf(gen)

C6_Witness ==
    /\ IsNum(gen) /\ gen.sep = "-" /\ HasStart(gen) /\ HasEnd(gen)
    /\ result # Pending /\ result.ok
    /\ Add(result.val.start, result.val.count.val) = TwoTo64

-----------------------------------------------------------------------------
(* Properties of the positioner.                                           *)

\* The bytes of c from the offset start on, at most lim of them when lim is Some
Window(c, start, lim) ==
    LET last == IF lim = None THEN Len(c) ELSE Min(Len(c), start + lim.val)
    IN  [i \in 1..(IF last > start THEN last - start ELSE 0) |-> c[start + i]]

\* The relative seek was attempted and failed with the error e
SeekFailedWith(e) == ops # <<>> /\ ops[1] = "seek" /\ SeekResult(handle) = e

\* C7 as stated: on every build and for every input kind the source yields
\* at most count bytes when count is present, and every byte from start to
\* the end of the input when count is None.
C7_AsStated ==
    /\ range.count # None => Len(out) <= range.count.val
    /\ (pc = "done" /\ range.count = None) => out = Window(content, range.start, None)

\* C8 as stated: after a seek refused with ESPIPE, positioning discards
\* exactly start bytes and returns the source, whose first byte is the one
\* at offset start, and the bytes yielded are those yielded after a
\* successful seek.
C8_AsStated ==
    SeekFailedWith("ESPIPE") =>
        /\ res # Err("read")
        /\ pc = "bound" => pos = range.start
        /\ out # <<>> => out[1] = content[range.start + 1]
        /\ pc = "done" => out = Window(content, range.start,
                                       SourceLimit(platform, range.count))

\* C8, amended: after a seek refused with ESPIPE, positioning discards
\* min(start, bytes available) bytes, that is exactly start bytes when the
\* input has that many, and then returns the source, unless a discarding
\* read fails with an error other than Interrupted, which is the result of
\* positioning; the first byte the source yields, if any, is the one at
\* offset start, and the bytes yielded by a complete copy are the same
\* whether the seek succeeded or fell back.
C8_Fallback ==
    /\ SeekFailedWith("ESPIPE") =>
        /\ pc = "bound" => pos = Min(range.start, Len(content)) /\ total = pos
        /\ (pc = "failed" /\ res # Ok("source")) => res = Err("read")
        /\ pc \in {"copy", "done"} => res = Ok("source")
        /\ out # <<>> => out[1] = content[range.start + 1]
    /\ pc = "done" => out = Window(content, range.start,
                                   SourceLimit(platform, range.count))

C8_Witness ==
    /\ SeekFailedWith("ESPIPE") /\ platform = "unix"
    /\ pc = "done" /\ out # <<>> /\ Len(ops) > 2

-----------------------------------------------------------------------------
(* Properties of Number.                                                   *)

\* C10: normalize keeps the byte count value * multiplier (so the quotient
\* narrowed to 64 bits lost nothing), its suffix has the largest multiplier
\* among the scales that divide the byte count, plain bytes when none does,
\* and a value of 0 gives (0, B) whatever the suffix.
C10_Normalize ==
    norm # Pending =>
        IF num.value = Zero THEN norm = new(Zero, "B")
        ELSE /\ Mul(norm.value, multiplier(norm.suffix)) = bytes_u128(num)
             /\ Leq(norm.value, U64Max)
             /\ \A s \in Suffixes :
                    Divides(multiplier(s), bytes_u128(num))
                        => Leq(multiplier(s), multiplier(norm.suffix))

C10_Witness ==
    /\ norm # Pending
    /\ num.suffix = "TB" /\ norm.suffix = "Ti"
    /\ Less(norm.value, num.value)
    /\ Divides(TB, bytes_u128(num))

\* C11 as stated: when value * multiplier exceeds 2^64-1, bytes and
\* try_bytes report a failure (a panic, None) and never return the product
\* modulo 2^64; when it fits, they return exactly value * multiplier.
C11_AsStated ==
    /\ bytesOut # Pending =>
          IF Less(U64Max, bytes_u128(num)) THEN bytesOut = Panicked
          ELSE bytesOut = Returned(bytes_u128(num))
    /\ tryOut # Pending =>
          IF Less(U64Max, bytes_u128(num)) THEN tryOut = None
          ELSE tryOut = Some(bytes_u128(num))

-----------------------------------------------------------------------------
(* Properties of the order of operations and of the copy loop.             *)

\* Every operation issued after the first one is a discarding read
ReadsAfter(first) == \A i \in (first + 1)..Len(ops) : ops[i] = "read"

\* Positioning is past the choice between the seek and the discarding read
PastOpen == pc \in {"skip", "bound", "copy", "done"} \/ res = Ok("source")

Skipped == range.start # 0 /\ (StdStdin \/ (ops # <<>> /\ SeekResult(handle) # "ok"))

\* What the loops leave, whatever number of reads reported Interrupted: the
\* copy wrote the window of the input and counted it, the discarding loop
\* counted the bytes it took
LoopResult ==
    /\ pc = "done" =>
        /\ out = Window(content, range.start, SourceLimit(platform, range.count))
        /\ total = Len(out)
    /\ (pc = "bound" /\ Skipped) =>
        /\ total = pos
        /\ pos = Min(range.start, Len(content))

\* A read that reports Interrupted changes nothing but the count of such reads
\* and the record of the reads issued
RetryStep ==
    intr' # intr =>
        /\ pc' = pc /\ res' = res
        /\ out' = out /\ total' = total
        /\ pos' = pos /\ limit' = limit

\* The loop is left on a zero-length read, or with an error
LeaveStep ==
    (Copying /\ pc' # pc) =>
        \/ pc' = "failed"
        \/ /\ ReadMax = 0 \/ Avail = 0
           /\ total' = total /\ out' = out
           /\ pc' = IF pc = "skip" THEN "bound" ELSE "done"

\* C13: in io_copy a read that reports Interrupted is retried: it returns
\* no error and adds nothing to the bytes written or to the total; with any
\* number of such reads the bytes written and the total at the end are the
\* same; and once the reader stops reporting Interrupted the loop ends, on a
\* zero-length read with the total of the bytes transferred or on the first
\* other error.
C13_Interrupted ==
    /\ []LoopResult
    /\ [][RetryStep /\ LeaveStep]_vars
    /\ (pc = "skip") ~> (pc # "skip")
    /\ (pc = "copy") ~> (pc \in {"done", "failed"})

C13_Witness ==
    /\ intr > 0 /\ intr = MaxIntr
    /\ pc = "done" /\ out # <<>> /\ total = Len(out)
    /\ Skipped

====
